---- MODULE Spec2Model ----
(***************************************************************************)
(* Model of libaf/filter.c: the FIR runtime (fir, pfir, updatepq), the     *)
(* window-method FIR designer (design_fir), the polyphase decomposer       *)
(* (design_pfir) and the IIR biquad designer (prewarp, bilinear, szxform); *)
(* and of input/win32_pipe.c: the pipe reader thread and its shutdown.     *)
(*                                                                         *)
(* Each component has its own variables, its own initial states and its    *)
(* own specification (SpecQueue, SpecFir, SpecPfir, SpecIir, SpecPipe); a  *)
(* component that is not part of a specification stays in its idle state.  *)
(* Spec is the union of all of them.                                       *)
(*                                                                         *)
(* _ftype_t values are modelled in fixed point: tap and sample values are  *)
(* integers in units of 1/Milli, frequencies are integers in units of      *)
(* 1/FcUnit, and quotients are kept as exact fractions [num, den].         *)
(***************************************************************************)
EXTENDS Integers, Sequences, FiniteSets, TLC

VARIABLES
  \* ---- FIR runtime: the circular queues of updatepq / pfir
  qn,        \* n: filter length (0 while the component is idle)
  qd,        \* d: number of queues (filters)
  xi,        \* the write cursor the caller threads through updatepq
  xq,        \* xq[q][c]: queue q (0..d-1), cell c (0..2n-1)
  pushed,    \* history: pushed[q] is the sequence of samples pushed to queue q
  visited,   \* history: the cursor positions updatepq stored at, in order
  qacc,      \* the last updatepq / pfir call: its memory accesses, the value
             \* it returned and (pfir) the output buffer y it left
  \* ---- design_fir
  fir_pc,    \* "idle" | "ready" | "done"
  fir_in,    \* the arguments of the call: [n, wnull, fc, window, kinds, env]
  fir_w,     \* the caller's tap buffer w[0..n-1], cells are fractions
  fir_ret,   \* return value of design_fir
  fir_loc,   \* locals of design_fir at its return: [g, blocks, fcA, fcB1, fcB2]
  \* ---- design_pfir
  pf_pc,     \* "idle" | "ready" | "done" | "crash"
  pf_in,     \* the arguments of the call: [n, k, wnull, w, pwnull, g, flags]
  pf_pw,     \* the caller's bank pw[i][j]
  pf_cnt,    \* history: pf_cnt[i][j] counts the stores to pw[i][j]
  pf_ret,    \* return value of design_pfir
  \* ---- szxform
  iir_pc,    \* "idle" | "ready" | "called"
  iir_k0,    \* history: the value of *k before the first call
  iir_k,     \* the gain accumulator *k, a fraction
  iir_coef,  \* the caller's coef[0..3]
  iir_ret,   \* return value of the last szxform call
  iir_last,  \* the last szxform call: [Q, nulls, written]
  iir_hist,  \* history: the arguments of every successful call, in order
  \* ---- input/win32_pipe.c: mp_input_add_pipe, reader_thread, close_pipe
  main_pc,   \* position of the thread that calls mp_input_add_pipe/close_pipe
  rd_pc,     \* position of reader_thread ("none" while it does not exist)
  priv,      \* the struct priv p: "none" | "live" | "freed"
  terminate, \* the event CreateEvent returned: [handle, signalled]
  close_fd,  \* reader_thread's local close_fd
  cb,        \* the outcome of the pending read: "none" | "data" | "eof"
  saw_term,  \* the reader found the terminate event signalled (line 57)
  join_tid,  \* the thread id pthread_join was handed: "none"|"reader"|"garbage"
  fed,       \* history: number of mp_input_src_feed_cmd_text calls
  discarded, \* history: number of completed data reads dropped at line 58
  late_feed, \* history: a feed happened after close_pipe had returned
  closes,    \* history: number of CloseHandle calls on the event's handle
  uaf        \* history: the places that read p after talloc_free(p)

vars == <<qn, qd, xi, xq, pushed, visited, qacc,
          fir_pc, fir_in, fir_w, fir_ret, fir_loc,
          pf_pc, pf_in, pf_pw, pf_cnt, pf_ret,
          iir_pc, iir_k0, iir_k, iir_coef, iir_ret, iir_last, iir_hist,
          main_pc, rd_pc, priv, terminate, close_fd, cb, saw_term, join_tid,
          fed, discarded, late_feed, closes, uaf>>

queueVars == <<qn, qd, xi, xq, pushed, visited, qacc>>
firVars   == <<fir_pc, fir_in, fir_w, fir_ret, fir_loc>>
pfVars    == <<pf_pc, pf_in, pf_pw, pf_cnt, pf_ret>>
iirVars   == <<iir_pc, iir_k0, iir_k, iir_coef, iir_ret, iir_last, iir_hist>>
pipeVars  == <<main_pc, rd_pc, priv, terminate, close_fd, cb, saw_term,
               join_tid, fed, discarded, late_feed, closes, uaf>>

(***************************************************************************)
(* Bounds of the model.                                                    *)
(***************************************************************************)
MaxLen      == 4   \* queue lengths n range over 1..MaxLen
ExtraPushes == 1   \* at most n + ExtraPushes pushes are explored per run
Depths      == {1, 2}   \* values of d
Strides     == {1, 2}   \* values of s
Samples     == {1, 2}   \* values of an input sample

(***************************************************************************)
(* Fixed-point helpers.                                                    *)
(***************************************************************************)
Abs(x) == IF x < 0 THEN 0 - x ELSE x

\* x & y on naturals, bit by bit.
RECURSIVE BitAnd(_, _)
BitAnd(x, y) ==
  IF x = 0 \/ y = 0 THEN 0
  ELSE (x % 2) * (y % 2) + 2 * BitAnd(x \div 2, y \div 2)

IsPow2(n) == n >= 1 /\ BitAnd(n, n - 1) = 0

(***************************************************************************)
(* FIR runtime: updatepq, fir, pfir (filter.c 27-78).                      *)
(***************************************************************************)

\* A cursor masked with n instead of n-1.
NextCursor_mask(n, cursor) == BitAnd(cursor + 1, n)

\* The cursor updatepq returns: (++xi)&(n-1).
NextCursor(n, cursor) == BitAnd(cursor + 1, n - 1)

\* The stores of updatepq to one queue: *txq = *(txq+n) = *in, where txq is
\* cell xi of the queue (queue q is the 2n cells starting at q*nt).
StoreSample(queue, n, cursor, sample) ==
  [queue EXCEPT ![cursor] = sample, ![cursor + n] = sample]

\* updatepq(n, d, xi, xq, in, s): queue q receives in[q*s].
UpdatePq(n, d, cursor, queues, in, s) ==
  [q \in 0..(d - 1) |-> StoreSample(queues[q], n, cursor, in[q * s])]

\* The window pfir hands to fir for filter q: xt = *x + xi (+ q*nt), read at
\* xt[0..n-1].
Window(q) == [j \in 0..(qn - 1) |-> xq[q][xi + j]]

\* The queues as the code addresses them: one region of d*2n cells starting
\* at *xq, queue q being the cells q*2n .. q*2n + 2n-1.
FlatQueues(n, d, queues) ==
  [a \in 0..(2 * n * d - 1) |-> queues[a \div (2 * n)][a % (2 * n)]]

\* A step of n cells instead of 2*n.
AdvanceQueue_n(ptr, n) == ptr + n

\* txq += nt in updatepq and xt += nt in pfir, with nt = 2*n: the step from
\* one queue to the next.
AdvanceQueue(ptr, n) == ptr + 2 * n

\* The addresses (offsets from *xq) the loop of updatepq stores to, txq
\* starting at *xq + xi.
RECURSIVE UpdatePqWrites(_, _, _)
UpdatePqWrites(n, d, txq) ==
  IF d = 0 THEN {}
  ELSE {txq, txq + n} \cup UpdatePqWrites(n, d - 1, AdvanceQueue(txq, n))

\* fir(n, w, x): the indices the do-while loop reads, in order.  n-- comes
\* first, so the body runs for n-1, n-2, ..., 0 (n >= 1).
RECURSIVE FirReads(_)
FirReads(n) ==
  IF n - 1 = 0 THEN <<0>> ELSE <<n - 1>> \o FirReads(n - 1)

\* fir(n, w, x): y accumulated over the indices read; w and x are the flat
\* tap and queue memories, wt and xt the addresses of w[0] and x[0].
RECURSIVE FirSum(_, _, _, _, _)
FirSum(reads, w, wt, x, xt) ==
  IF reads = <<>> THEN 0
  ELSE w[wt + Head(reads)] * x[xt + Head(reads)]
       + FirSum(Tail(reads), w, wt, x, xt)

\* The access record of a call that has touched nothing yet.
NoAccess ==
  [op |-> "none", xw |-> {}, xr |-> {}, wr |-> {}, yw |-> {},
   reads |-> <<>>, macs |-> 0, ret |-> 0, out |-> <<>>]

\* The loop of pfir: while(d-- > 0){ *y = fir(n,wt,xt); wt+=n; xt+=nt; y+=s; }
\* acc collects the addresses read and written, acc.out is the buffer y
\* points into and acc.ret the pointer returned.
RECURSIVE PfirLoop(_, _, _, _, _, _, _, _, _)
PfirLoop(n, d, s, w, x, wt, xt, y, acc) ==
  IF d = 0 THEN [acc EXCEPT !.ret = y]
  ELSE LET reads == FirReads(n)
           idx   == {reads[i] : i \in 1..Len(reads)}
       IN PfirLoop(n, d - 1, s, w, x, wt + n, AdvanceQueue(xt, n), y + s,
                   [acc EXCEPT !.xr = @ \cup {xt + j : j \in idx},
                               !.wr = @ \cup {wt + j : j \in idx},
                               !.yw = @ \cup {y},
                               !.reads = reads,
                               !.macs = @ + Len(reads),
                               !.out[y] = FirSum(reads, w, wt, x, xt)])

\* pfir(n, d, xi, w, x, y, s): xt = *x + xi and wt = *w.
Pfir(n, d, cursor, w, x, ybuf, s) ==
  PfirLoop(n, d, s, w, x, 0, cursor, 0,
           [NoAccess EXCEPT !.op = "pfir", !.out = ybuf])

\* The n taps of each of d filters, w[0 .. d*n-1], that a caller passes.
TapBanks(n, d) == {[i \in 0..(d * n - 1) |-> i + 1]}

QueueIdle ==
  /\ qn = 0 /\ qd = 0 /\ xi = 0
  /\ xq = <<>> /\ pushed = <<>>
  /\ visited = <<>> /\ qacc = NoAccess

QueueInit ==
  /\ qn \in 1..MaxLen
  /\ qd \in Depths
  /\ xi \in 0..(qn - 1)
  /\ xq = [q \in 0..(qd - 1) |-> [c \in 0..(2 * qn - 1) |-> 0]]
  /\ pushed = [q \in 0..(qd - 1) |-> <<>>]
  /\ visited = <<>>
  /\ qacc = NoAccess

\* One call xi = updatepq(n, d, xi, xq, in, s).
Push ==
  /\ qn >= 1
  /\ Len(pushed[0]) < qn + ExtraPushes
  /\ \E s \in Strides :
       \E in \in [0..((qd - 1) * s) -> Samples] :
         \* cells of in that updatepq never reads are held at one value
         /\ \A c \in DOMAIN in : c % s # 0 => in[c] = 1
         /\ xq' = UpdatePq(qn, qd, xi, xq, in, s)
         /\ xi' = NextCursor(qn, xi)
         /\ pushed' = [q \in 0..(qd - 1) |-> Append(pushed[q], in[q * s])]
  /\ visited' = Append(visited, xi)
  /\ qacc' = [NoAccess EXCEPT !.op = "updatepq",
                              !.xw = UpdatePqWrites(qn, qd, xi),
                              !.ret = NextCursor(qn, xi)]
  /\ UNCHANGED <<qn, qd>>
  /\ UNCHANGED <<firVars, pfVars, iirVars, pipeVars>>

\* One call pfir(n, d, xi, w, x, y, s) on the queues, y a zeroed buffer of
\* (d-1)*s + 1 cells.
PfirCall ==
  /\ qn >= 1
  /\ \E s \in Strides :
       \E w \in TapBanks(qn, qd) :
         LET ybuf == [c \in 0..((qd - 1) * s) |-> 0]
         IN qacc' = Pfir(qn, qd, xi, w, FlatQueues(qn, qd, xq), ybuf, s)
  /\ UNCHANGED <<qn, qd, xi, xq, pushed, visited>>
  /\ UNCHANGED <<firVars, pfVars, iirVars, pipeVars>>

(***************************************************************************)
(* design_fir (filter.c 97-220).                                           *)
(***************************************************************************)

\* One unit of a tap value: taps are integers in units of 1/Milli.
Milli  == 1000
\* One unit of a frequency: frequencies are integers in units of 1/FcUnit.
FcUnit == 16
\* M_PI in units of 1/Milli.
PiMilli == 3142

MaxTaps == 4   \* design_fir lengths n range over 0..MaxTaps

\* The window selectors of flags & WINDOW_MASK that the switch accepts, and
\* one value it does not.
Windows == {"BOXCAR", "TRIANG", "HAMMING", "HANNING", "BLACKMAN", "FLATTOP", "KAISER"}
NoWindow == "NOWINDOW"
\* The filter-kind bits of flags.
Kinds == {"LP", "HP", "BP", "BS"}
KindSets == {{}, {"LP"}, {"HP"}, {"BP"}, {"BS"}, {"LP", "HP"}, {"LP", "BP"}, {"HP", "BS"}}

\* Cutoffs offered by the caller, in units of 1/FcUnit:
\* -0.25, 0, 0.25, 0.75, 1.0, 1.25.
FcVals  == {-4, 0, 4, 12, 16, 20}
\* Envelope values a window generator may store, in units of 1/Milli.
EnvVals == {500, 1000}

\* A tap cell holds the fraction num/den (in units of 1/Milli); den = 0 is
\* the non-finite value a division by zero leaves.
Frac(a, b) == [num |-> a, den |-> b]

\* sin(pi * m / (2*FcUnit)) in units of 1/Milli for m = 0..FcUnit: the
\* first quadrant.
SinQuadrant == <<0, 98, 195, 290, 383, 471, 556, 634, 707,
                 773, 831, 882, 924, 957, 981, 995, 1000>>

\* sin(pi * a / FcUnit), a an integer: the table extended by symmetry.
Sin(a) ==
  LET m == a % (2 * FcUnit)
      h == m % FcUnit
      q == IF 2 * h <= FcUnit THEN SinQuadrant[2 * h + 1]
           ELSE SinQuadrant[2 * (FcUnit - h) + 1]
  IN IF m < FcUnit THEN q ELSE 0 - q

\* sin(k * t1)/(M_PI * t1), where k = 2*pi*kf/FcUnit and t1 = t2/2.
Sinc(kf, t2) == (2 * Milli * Sin(kf * t2)) \div (PiMilli * t2)

\* Product of two fixed-point values.
Mul(a, b) == (a * b) \div Milli
\* Product of a frequency and a fixed-point value.
FMul(f, a) == (f * a) \div FcUnit

\* o = n & 1 and end = ((n + 1) >> 1) - o.
Odd(n) == n % 2
LoopEnd(n) == ((n + 1) \div 2) - Odd(n)

\* 2 * t1 for loop index i: t1 = (i+1) - k2 with k2 = 0.5*(1-o) in the LP and
\* BP loops, t1 = i+1 in the HP and BS loops.
T2(i, o) == 2 * (i + 1) - (1 - o)
T2Int(i) == 2 * (i + 1)

\* The two cells one loop iteration stores to: w[end-i-1] and w[n-end+i].
LeftIdx(n, i) == LoopEnd(n) - i - 1
RightIdx_shift(n, i) == n - LoopEnd(n) + i - 1
RightIdx(n, i) == n - LoopEnd(n) + i

StorePair(w, n, i, v) == [w EXCEPT ![LeftIdx(n, i)] = v, ![RightIdx(n, i)] = v]

\* fc1 = ((fc1 <= 1.0) && (fc1 > 0.0)) ? fc1/2 : 0.25
Cutoff(fc) == IF fc <= FcUnit /\ fc > 0 THEN fc \div 2 ELSE FcUnit \div 4

\* "if (!o) return -1": HP and BS filters must have odd length.
ParityOK_none(o) == TRUE
ParityOK(o) == o # 0

\* The loops "for (i=0 ; i<end ; i++)" of the four kinds; f is [w, g].
RECURSIVE LPLoop(_, _, _, _)
LPLoop(i, n, k1, f) ==
  IF i >= LoopEnd(n) THEN f
  ELSE LET v == Mul(f.w[LeftIdx(n, i)], Sinc(k1, T2(i, Odd(n))))
       IN LPLoop(i + 1, n, k1, [w |-> StorePair(f.w, n, i, v), g |-> f.g + 2 * v])

RECURSIVE HPLoop(_, _, _, _)
HPLoop(i, n, k1, f) ==
  IF i >= LoopEnd(n) THEN f
  ELSE LET v == 0 - Mul(f.w[LeftIdx(n, i)], Sinc(k1, T2Int(i)))
       IN HPLoop(i + 1, n, k1,
                 [w |-> StorePair(f.w, n, i, v),
                  g |-> f.g + (IF i % 2 = 1 THEN 2 * v ELSE 0 - 2 * v)])

RECURSIVE BPLoop(_, _, _, _, _)
BPLoop(i, n, k1, k3, f) ==
  IF i >= LoopEnd(n) THEN f
  ELSE LET t2 == Sinc(k3, T2(i, Odd(n)))
           t3 == Sinc(k1, T2(i, Odd(n)))
           old == f.w[LeftIdx(n, i)]
       IN BPLoop(i + 1, n, k1, k3,
                 [w |-> StorePair(f.w, n, i, Mul(old, t2 - t3)),
                  g |-> f.g + Mul(old, t3 + t2)])

RECURSIVE BSLoop(_, _, _, _, _)
BSLoop(i, n, k1, k3, f) ==
  IF i >= LoopEnd(n) THEN f
  ELSE LET t2 == Sinc(k1, T2Int(i))
           t3 == Sinc(k3, T2Int(i))
           v == Mul(f.w[LeftIdx(n, i)], t2 - t3)
       IN BSLoop(i + 1, n, k1, k3,
                 [w |-> StorePair(f.w, n, i, v), g |-> f.g + 2 * v])

\* The block "if(flags & (LP | HP))" (133-170).  fr is the frame
\* [ret, w, g, k1, blocks, fcA, fcB1, fcB2]: ret = 1 while the call is still
\* running; blocks tells which of the two blocks ("A": LP|HP, "B": BP|BS) were
\* entered; fcA is the fc1 block A computed, fcB1 and fcB2 the fc1 and fc2
\* block B computed (0 while not computed).
StageLPHP(n, fc, kinds, fr) ==
  IF fr.ret # 1 \/ kinds \cap {"LP", "HP"} = {} THEN fr
  ELSE
    LET fc1 == Cutoff(fc[1])
        k1  == FMul(fr.k1, fc1)
        e   == LoopEnd(n)
        o   == Odd(n)
    IN IF "LP" \in kinds
       THEN LET c  == FMul(fc1, fr.w[e]) * 2
                f0 == IF o # 0 THEN [w |-> [fr.w EXCEPT ![e] = c], g |-> c]
                      ELSE [w |-> fr.w, g |-> fr.g]
                f1 == LPLoop(0, n, k1, f0)
            IN [fr EXCEPT !.w = f1.w, !.g = f1.g, !.k1 = k1, !.fcA = fc1,
                          !.blocks = @ \cup {"A"}]
       ELSE IF ~ParityOK(o)
            THEN [fr EXCEPT !.ret = -1, !.k1 = k1, !.fcA = fc1,
                          !.blocks = @ \cup {"A"}]
            ELSE LET c  == Milli - FMul(fc1, fr.w[e]) * 2
                     f1 == HPLoop(0, n, k1, [w |-> [fr.w EXCEPT ![e] = c], g |-> c])
                 IN [fr EXCEPT !.w = f1.w, !.g = f1.g, !.k1 = k1, !.fcA = fc1,
                          !.blocks = @ \cup {"A"}]

\* The block "if(flags & (BP | BS))" (172-212).
StageBPBS(n, fc, kinds, fr) ==
  IF fr.ret # 1 \/ kinds \cap {"BP", "BS"} = {} THEN fr
  ELSE
    LET fc1 == Cutoff(fc[1])
        fc2 == Cutoff(fc[2])
        k3  == FMul(fr.k1, fc2)
        k1  == FMul(fr.k1, fc1)
        e   == LoopEnd(n)
        o   == Odd(n)
    IN IF "BP" \in kinds
       THEN LET f0 == IF o # 0
                      THEN [w |-> [fr.w EXCEPT ![e] = FMul(fc2 - fc1, fr.w[e]) * 2],
                            g |-> FMul(fc1 + fc2, fr.w[e])]
                      ELSE [w |-> fr.w, g |-> fr.g]
                f1 == BPLoop(0, n, k1, k3, f0)
            IN [fr EXCEPT !.w = f1.w, !.g = f1.g, !.k1 = k1, !.fcB1 = fc1, !.fcB2 = fc2,
                          !.blocks = @ \cup {"B"}]
       ELSE IF ~ParityOK(o)
            THEN [fr EXCEPT !.ret = -1, !.k1 = k1, !.fcB1 = fc1, !.fcB2 = fc2,
                          !.blocks = @ \cup {"B"}]
            ELSE LET c  == Milli - FMul(fc2 - fc1, fr.w[e]) * 2
                     f1 == BSLoop(0, n, k1, k3, [w |-> [fr.w EXCEPT ![e] = c], g |-> c])
                 IN [fr EXCEPT !.w = f1.w, !.g = f1.g, !.k1 = k1, !.fcB1 = fc1, !.fcB2 = fc2,
                          !.blocks = @ \cup {"B"}]

\* "g=1/g; for (i=0; i<n; i++) w[i] *= g; return 0;" (214-219): every tap
\* becomes the quotient w[i]/g, with no test of g.
Normalize(n, fr) ==
  IF fr.ret # 1 THEN [fr EXCEPT !.w = [i \in 0..(n - 1) |-> Frac(fr.w[i], 1)]]
  ELSE [fr EXCEPT !.ret = 0,
                  !.w = [i \in 0..(n - 1) |-> Frac(Milli * fr.w[i], fr.g)]]

\* design_fir(n, w, fc, flags, opt).  wnull says that w is NULL, wbuf is
\* what the caller's buffer holds otherwise; env is what the selected window
\* generator stores into w[0..n-1].
DesignFir(n, wnull, wbuf, fc, window, kinds, env) ==
  LET fr0 == [ret |-> 1, w |-> env, g |-> 0, k1 |-> FcUnit,
              blocks |-> {}, fcA |-> 0, fcB1 |-> 0, fcB2 |-> 0]
  IN IF wnull \/ n = 0 \/ window \notin Windows
     THEN [fr0 EXCEPT !.ret = -1, !.w = wbuf]
     ELSE Normalize(n, StageBPBS(n, fc, kinds, StageLPHP(n, fc, kinds, fr0)))

FirIdle ==
  /\ fir_pc = "idle" /\ fir_in = <<>> /\ fir_w = <<>>
  /\ fir_ret = 0 /\ fir_loc = <<>>

FirInit ==
  /\ fir_pc = "ready" /\ fir_in = <<>> /\ fir_w = <<>>
  /\ fir_ret = 0 /\ fir_loc = <<>>

\* One call of design_fir on a fresh buffer.
DesignFirCall ==
  /\ fir_pc = "ready"
  /\ \E n \in 0..MaxTaps, isnull \in BOOLEAN, window \in Windows \cup {NoWindow},
        kinds \in KindSets, fc \in FcVals \X FcVals :
       \E env \in [0..(n - 1) -> EnvVals] :
         LET wbuf == [i \in 0..(n - 1) |-> Frac(0, 1)]
             r == DesignFir(n, isnull, wbuf, fc, window, kinds, env)
         IN \* an argument the call never reads gets one value only
            /\ (isnull \/ n = 0 \/ window \notin Windows)
                 => (env = [i \in 0..(n - 1) |-> Milli] /\ fc = <<FcUnit, FcUnit>>)
            /\ isnull => kinds = {"LP"}
            /\ kinds \cap {"BP", "BS"} = {} => fc[2] = FcUnit
            /\ kinds = {} => fc[1] = FcUnit
            /\ fir_in' = [n |-> n, wnull |-> isnull, fc |-> fc,
                          window |-> window, kinds |-> kinds, env |-> env]
            /\ fir_w' = r.w
            /\ fir_ret' = r.ret
            /\ fir_loc' = [g |-> r.g, blocks |-> r.blocks,
                           fcA |-> r.fcA, fcB1 |-> r.fcB1, fcB2 |-> r.fcB2]
  /\ fir_pc' = "done"
  /\ UNCHANGED <<queueVars, pfVars, iirVars, pipeVars>>


(***************************************************************************)
(* design_pfir (filter.c 235-264).                                         *)
(***************************************************************************)

MaxProto == 10  \* prototype lengths n range over 0..MaxProto
MaxK     == 3   \* k ranges over 0..MaxK

\* The bits of flags that design_pfir tests (REW, ODD), and FWD.
PfFlagSets == SUBSET {"FWD", "REW", "ODD"}
\* Gains g, in units of 1/Milli.
Gains == {1000, 2000}
\* Prototype taps w[0..n-1], in units of 1/Milli: a ramp and an alternating ramp.
Protos(n) == {[p \in 0..(n - 1) |-> 100 * (p + 1)],
              [p \in 0..(n - 1) |-> IF p % 2 = 0 THEN 100 * (p + 1) ELSE 0 - 100 * (p + 1)]}

\* Columns the caller's rows hold: the bank is caller-sized for n taps in k rows.
BankCols(n, k) == (n + k - 1) \div k

\* (flags & ODD) ? ((j & 1) ? -1 : 1) : 1 in the REW loop, and
\* (flags & ODD) ? ((j & 1) ? 1 : -1) : 1 in the other loop.
SignRew(flags, j) == IF "ODD" \in flags THEN (IF j % 2 = 1 THEN -1 ELSE 1) ELSE 1
SignFwd(flags, j) == IF "ODD" \in flags THEN (IF j % 2 = 1 THEN 1 ELSE -1) ELSE 1

\* "t=g * *w++; pw[i][j]=t * sign": st is [pw, cnt, p], p the offset of w.
PfStore_row(st, i, j, w, g, sign) ==
  [pw  |-> [st.pw EXCEPT ![j][i] = Mul(g, w[st.p]) * sign],
   cnt |-> [st.cnt EXCEPT ![j][i] = @ + 1],
   p   |-> st.p + 1]
PfStore(st, i, j, w, g, sign) ==
  [pw  |-> [st.pw EXCEPT ![i][j] = Mul(g, w[st.p]) * sign],
   cnt |-> [st.cnt EXCEPT ![i][j] = @ + 1],
   p   |-> st.p + 1]

\* for(i=0;i<(int)k;i++) of the REW loop and of the other loop.
RECURSIVE PfRowsRew(_, _, _, _, _, _, _)
PfRowsRew(i, j, k, w, g, flags, st) ==
  IF ~(i < k) THEN st
  ELSE PfRowsRew(i + 1, j, k, w, g, flags, PfStore(st, i, j, w, g, SignRew(flags, j)))

RECURSIVE PfRowsFwd(_, _, _, _, _, _, _)
PfRowsFwd(i, j, k, w, g, flags, st) ==
  IF ~(i < k) THEN st
  ELSE PfRowsFwd(i + 1, j, k, w, g, flags, PfStore(st, i, j, w, g, SignFwd(flags, j)))

\* for(j=l-1;j>-1;j--) and for(j=0;j<l;j++).
RECURSIVE PfColsRew(_, _, _, _, _, _)
PfColsRew(j, k, w, g, flags, st) ==
  IF ~(j > -1) THEN st
  ELSE PfColsRew(j - 1, k, w, g, flags, PfRowsRew(0, j, k, w, g, flags, st))

RECURSIVE PfColsFwd(_, _, _, _, _, _, _)
PfColsFwd(j, l, k, w, g, flags, st) ==
  IF ~(j < l) THEN st
  ELSE PfColsFwd(j + 1, l, k, w, g, flags, PfRowsFwd(0, j, k, w, g, flags, st))

\* The value of the final "return" of design_pfir (263).
PfFilledRet == -1

\* design_pfir(n, k, w, pw, g, flags) for k # 0; l is (int)n/k.  wnull and
\* pwnull say that w and pw are NULL.  st0 is [pw, cnt, p] before the call.
DesignPfir(n, k, wnull, w, pwnull, g, flags, st0) ==
  LET l == n \div k
  IN IF l < 1 \/ k < 1 \/ wnull \/ pwnull
     THEN [pw |-> st0.pw, cnt |-> st0.cnt, ret |-> -1]
     ELSE LET st == IF "REW" \in flags
                    THEN PfColsRew(l - 1, k, w, g, flags, st0)
                    ELSE PfColsFwd(0, l, k, w, g, flags, st0)
          IN [pw |-> st.pw, cnt |-> st.cnt, ret |-> PfFilledRet]

PfIdle ==
  /\ pf_pc = "idle" /\ pf_in = <<>> /\ pf_pw = <<>> /\ pf_cnt = <<>> /\ pf_ret = 0

PfInit ==
  /\ pf_pc = "ready" /\ pf_in = <<>> /\ pf_pw = <<>> /\ pf_cnt = <<>> /\ pf_ret = 0

\* The bank before the call: k rows of BankCols(n, k) columns, all zero.
EmptyBank(n, k) == [i \in 0..(k - 1) |-> [j \in 0..(BankCols(n, k) - 1) |-> 0]]

\* One call of design_pfir with k >= 1.
DesignPfirCall ==
  /\ pf_pc = "ready"
  /\ \E n \in 0..MaxProto, k \in 1..MaxK, wnull \in BOOLEAN, pwnull \in BOOLEAN,
        g \in Gains, flags \in PfFlagSets :
       \E proto \in Protos(n) :
         LET r == DesignPfir(n, k, wnull, proto, pwnull, g, flags,
                             [pw |-> EmptyBank(n, k), cnt |-> EmptyBank(n, k), p |-> 0])
         IN /\ pf_in' = [n |-> n, k |-> k, wnull |-> wnull, w |-> proto,
                         pwnull |-> pwnull, g |-> g, flags |-> flags]
            /\ pf_pw' = r.pw
            /\ pf_cnt' = r.cnt
            /\ pf_ret' = r.ret
  /\ pf_pc' = "done"
  /\ UNCHANGED <<queueVars, firVars, iirVars, pipeVars>>

\* A call with k = 0: "int l = (int)n/k" divides by zero before the sanity
\* check.  The behaviour is undefined: the division traps (the call never
\* returns), or it yields some l and the sanity check rejects k < 1.
DesignPfirDivZero ==
  /\ pf_pc = "ready"
  /\ \E n \in 0..MaxProto, g \in Gains, flags \in PfFlagSets :
       \E proto \in Protos(n) :
         /\ pf_in' = [n |-> n, k |-> 0, wnull |-> FALSE, w |-> proto,
                      pwnull |-> FALSE, g |-> g, flags |-> flags]
         /\ pf_pw' = <<>> /\ pf_cnt' = <<>>
         /\ \/ pf_pc' = "crash" /\ pf_ret' = pf_ret
            \/ pf_pc' = "done" /\ pf_ret' = -1
  /\ UNCHANGED <<queueVars, firVars, iirVars, pipeVars>>


(***************************************************************************)
(* prewarp, bilinear, szxform (filter.c 276-432).  Values are exact        *)
(* fractions [num, den] with den > 0, kept in lowest terms.                *)
(***************************************************************************)

MaxSections == 2      \* at most MaxSections successful szxform calls per cascade
KCap        == 10000  \* szxform is not explored once |k| has a term above KCap

RECURSIVE Gcd(_, _)
Gcd(a, b) == IF b = 0 THEN a ELSE Gcd(b, a % b)

\* num/den in lowest terms with a positive denominator (den # 0).
Rat(num, den) ==
  LET g == Gcd(Abs(num), Abs(den))
      sg == IF den < 0 THEN -1 ELSE 1
  IN [num |-> sg * (num \div g), den |-> sg * (den \div g)]

RInt(x) == Rat(x, 1)
RAdd(x, y) == Rat(x.num * y.den + y.num * x.den, x.den * y.den)
RSub(x, y) == Rat(x.num * y.den - y.num * x.den, x.den * y.den)
RMul(x, y) == Rat(x.num * y.num, x.den * y.den)
RDiv(x, y) == Rat(x.num * y.den, x.den * y.num)
RLess(x, y) == x.num * y.den < y.num * x.den

\* The (fc, fs) pairs the callers offer: fc/fs is 1/4 or 3/4, where the
\* tangent is rational.
Rates == {<<1, 4>>, <<6, 8>>}
\* tan(M_PI * fc / fs) on those: tan(pi/4) = 1, tan(3pi/4) = -1.
TanPi(fc, fs) == IF 4 * fc = fs THEN RInt(1) ELSE RInt(-1)

\* prewarp(a, fc, fs): wp = 2.0 * fs * tan(M_PI * fc / fs);
\* a[2] = a[2]/(wp * wp); a[1] = a[1]/wp.
Prewarp(a, fc, fs) ==
  LET wp == RMul(RInt(2 * fs), TanPi(fc, fs))
  IN [a EXCEPT ![2] = RDiv(a[2], RMul(wp, wp)), ![1] = RDiv(a[1], wp)]

\* ad = 4. * a[2] * fs * fs + 2. * a[1] * fs + a[0]
Denom(a, fs) ==
  RAdd(RAdd(RMul(RInt(4 * fs * fs), a[2]), RMul(RInt(2 * fs), a[1])), a[0])

\* "*k *= ad/bd"
GainUpdate_reset(k, ad, bd) == RDiv(ad, bd)
GainUpdate(k, ad, bd) == RMul(k, RDiv(ad, bd))

\* bilinear(a, b, k, fs, coef): the new *k and the four stores to coef.
Bilinear(a, b, k, fs, coef) ==
  LET ad == Denom(a, fs)
      bd == Denom(b, fs)
      fs2 == fs * fs
      beta1  == RDiv(RSub(RMul(RInt(2), b[0]), RMul(RInt(8 * fs2), b[2])), bd)
      beta2  == RDiv(RAdd(RSub(RMul(RInt(4 * fs2), b[2]), RMul(RInt(2 * fs), b[1])), b[0]), bd)
      alpha1 == RDiv(RSub(RMul(RInt(2), a[0]), RMul(RInt(8 * fs2), a[2])), ad)
      alpha2 == RDiv(RAdd(RSub(RMul(RInt(4 * fs2), a[2]), RMul(RInt(2 * fs), a[1])), a[0]), ad)
  IN [k |-> GainUpdate(k, ad, bd),
      coef |-> [coef EXCEPT ![0] = beta1, ![1] = beta2, ![2] = alpha1, ![3] = alpha2],
      written |-> {0, 1, 2, 3}]

\* (Q>1000.0 || Q< 1.0)
QOutOfRange_open(Q) == ~RLess(Q, RInt(1000)) \/ RLess(Q, RInt(1))
QOutOfRange(Q) == RLess(RInt(1000), Q) \/ RLess(Q, RInt(1))

\* szxform(a, b, Q, fc, fs, k, coef).  nulls is the set of the pointer
\* arguments that are NULL; k and coef are what *k and coef[] hold.
Szxform(a, b, Q, fc, fs, k, coef, nulls) ==
  IF nulls # {} \/ QOutOfRange(Q)
  THEN [ret |-> -1, k |-> k, coef |-> coef, written |-> {}]
  ELSE LET at == a
           bt == [b EXCEPT ![1] = RDiv(b[1], Q)]
           r  == Bilinear(Prewarp(at, fc, fs), Prewarp(bt, fc, fs),
                          k, fs, coef)
       IN [ret |-> 0, k |-> r.k, coef |-> r.coef, written |-> r.written]

\* s-domain numerators a[0..2] and denominators b[0..2] the callers offer.
Poly(c0, c1, c2) == [i \in 0..2 |-> RInt(IF i = 0 THEN c0 ELSE IF i = 1 THEN c1 ELSE c2)]
Numerators   == {Poly(1, 0, 0), Poly(1, 0, 1)}
Denominators == {Poly(2, 1, 1)}
\* Q values: 0.5, 1, 2, 1000, 1000.5.
QVals == {Rat(1, 2), RInt(1), RInt(2), RInt(1000), Rat(2001, 2)}
\* Which pointer arguments are NULL in a call.
NullSets == {{}, {"a"}, {"b"}, {"k"}, {"coef"}}
\* Initial values of the gain accumulator.
KInits == {RInt(1), RInt(2)}

IirIdle ==
  /\ iir_pc = "idle" /\ iir_k0 = RInt(0) /\ iir_k = RInt(0) /\ iir_coef = <<>>
  /\ iir_ret = 0 /\ iir_last = <<>> /\ iir_hist = <<>>

IirInit ==
  /\ iir_pc = "ready"
  /\ iir_k \in KInits
  /\ iir_k0 = iir_k
  /\ iir_coef = [i \in 0..3 |-> RInt(0)]
  /\ iir_ret = 0
  /\ iir_last = <<>>
  /\ iir_hist = <<>>

\* One call of szxform on the cascade's k and on the caller's coef.
SzxformCall ==
  /\ iir_pc \in {"ready", "called"}
  /\ Len(iir_hist) < MaxSections
  /\ Abs(iir_k.num) <= KCap /\ iir_k.den <= KCap
  /\ \E a \in Numerators, b \in Denominators, Q \in QVals, rate \in Rates,
        nulls \in NullSets :
       LET r == Szxform(a, b, Q, rate[1], rate[2], iir_k, iir_coef, nulls)
           args == [a |-> a, b |-> b, Q |-> Q, fc |-> rate[1], fs |-> rate[2]]
       IN \* a call with a NULL pointer reads nothing else: one choice of the rest
          /\ nulls # {} => (a = Poly(1, 0, 0) /\ rate = <<1, 4>> /\ Q = RInt(1))
          /\ iir_k' = r.k
          /\ iir_coef' = r.coef
          /\ iir_ret' = r.ret
          /\ iir_last' = [Q |-> Q, nulls |-> nulls, written |-> r.written]
          /\ iir_hist' = IF r.ret = 0 THEN Append(iir_hist, args) ELSE iir_hist
  /\ iir_pc' = "called"
  /\ UNCHANGED iir_k0
  /\ UNCHANGED <<queueVars, firVars, pfVars, pipeVars>>

(***************************************************************************)
(* Specifications.                                                         *)
(***************************************************************************)
(***************************************************************************)
(* input/win32_pipe.c: mp_input_add_pipe, reader_thread, close_pipe.       *)
(* Two threads: the one that adds and closes the input source, and the     *)
(* reader.  Every statement that touches shared state (the struct priv p,  *)
(* the terminate event, the thread's existence) is one step.               *)
(***************************************************************************)
MaxFeeds == 2   \* at most MaxFeeds reads complete with data

\* The file names a caller passes: "/dev/stdin" is not opened (nor closed)
\* by the reader, anything else is.
Filenames == {"/dev/stdin", "pipe"}

\* What reading a field of p yields: the stored value while p is live; after
\* talloc_free(p) the read is undefined and yields the stale value, some
\* other value, or a fault.
ReadField == IF priv = "live" THEN {"value"} ELSE {"value", "garbage", "fault"}

\* The record of reads of p after it was freed, extended by a read at site.
Deref(site) == IF priv = "freed" THEN uaf \cup {site} ELSE uaf

PipeIdle ==
  /\ main_pc = "idle" /\ rd_pc = "none" /\ priv = "none"
  /\ terminate = [handle |-> "null", signalled |-> FALSE]
  /\ close_fd = TRUE /\ cb = "none" /\ saw_term = FALSE /\ join_tid = "none"
  /\ fed = 0 /\ discarded = 0 /\ late_feed = FALSE /\ closes = 0 /\ uaf = {}

\* Before mp_input_add_pipe is called.
PipeInit ==
  /\ main_pc = "start" /\ rd_pc = "none" /\ priv = "none"
  /\ terminate = [handle |-> "null", signalled |-> FALSE]
  /\ close_fd = TRUE /\ cb = "none" /\ saw_term = FALSE /\ join_tid = "none"
  /\ fed = 0 /\ discarded = 0 /\ late_feed = FALSE /\ closes = 0 /\ uaf = {}

\* The process is running (no thread has faulted).
Alive == main_pc # "crash"

\* mp_input_add_pipe, mp_input_add_src returning NULL: nothing is created.
AddPipeNoSrc ==
  /\ main_pc = "start"
  /\ main_pc' = "nosrc"
  /\ UNCHANGED <<rd_pc, priv, terminate, close_fd, cb, saw_term, join_tid,
                 fed, discarded, late_feed, closes, uaf>>
  /\ UNCHANGED <<queueVars, firVars, pfVars, iirVars>>

\* mp_input_add_pipe, failure branch: CreateEvent returned NULL, or
\* pthread_create failed.  CloseHandle(p->terminate); talloc_free(p);
\* mp_input_src_kill(src).  src->close is never set.
AddPipeFail ==
  /\ main_pc = "start"
  /\ \E created \in BOOLEAN :
       /\ terminate' = [handle |-> IF created THEN "closed" ELSE "null",
                        signalled |-> FALSE]
       /\ closes' = IF created THEN closes + 1 ELSE closes
  /\ priv' = "freed"
  /\ main_pc' = "failed"
  /\ UNCHANGED <<rd_pc, close_fd, cb, saw_term, join_tid,
                 fed, discarded, late_feed, uaf>>
  /\ UNCHANGED <<queueVars, firVars, pfVars, iirVars>>

\* mp_input_add_pipe, success: p allocated and filled, the event created,
\* the reader started, src->close = close_pipe.  The reader's first
\* statements (lines 22-31) choose fd and close_fd from p->filename.
AddPipeOk ==
  /\ main_pc = "start"
  /\ priv' = "live"
  /\ terminate' = [handle |-> "open", signalled |-> FALSE]
  /\ \E filename \in Filenames : close_fd' = (filename # "/dev/stdin")
  /\ rd_pc' = "open"
  /\ main_pc' = "created"
  /\ UNCHANGED <<cb, saw_term, join_tid, fed, discarded, late_feed, closes, uaf>>
  /\ UNCHANGED <<queueVars, firVars, pfVars, iirVars>>

\* reader_thread lines 32-37: open(p->filename) unless fd is stdin already;
\* on failure MP_ERR(p, ...) and goto done.
RdOpen ==
  /\ Alive /\ rd_pc = "open"
  /\ uaf' = Deref("reader open")
  /\ \/ rd_pc' = "alloc"
     \/ close_fd /\ rd_pc' = "done"
  /\ UNCHANGED <<main_pc, priv, terminate, close_fd, cb, saw_term, join_tid,
                 fed, discarded, late_feed, closes>>
  /\ UNCHANGED <<queueVars, firVars, pfVars, iirVars>>

\* reader_thread lines 39-50: waio_alloc; on failure goto done; otherwise
\* cb.hsignal = p->terminate.
RdAlloc ==
  /\ Alive /\ rd_pc = "alloc"
  /\ uaf' = Deref("reader alloc")
  /\ \/ rd_pc' = "read"
     \/ rd_pc' = "done"
  /\ UNCHANGED <<main_pc, priv, terminate, close_fd, cb, saw_term, join_tid,
                 fed, discarded, late_feed, closes>>
  /\ UNCHANGED <<queueVars, firVars, pfVars, iirVars>>

\* reader_thread lines 52-55: waio_read starts a read, or fails and breaks.
RdRead ==
  /\ Alive /\ rd_pc = "read"
  /\ \/ rd_pc' = "suspend"
     \/ rd_pc' = "done"
  /\ cb' = "none"
  /\ UNCHANGED <<main_pc, priv, terminate, close_fd, saw_term, join_tid,
                 fed, discarded, late_feed, closes, uaf>>
  /\ UNCHANGED <<queueVars, firVars, pfVars, iirVars>>

\* reader_thread line 56: waio_suspend returns when the read has completed
\* (with data, or with EOF / an error) or when hsignal, the terminate event,
\* is signalled.
RdSuspend ==
  /\ Alive /\ rd_pc = "suspend"
  /\ \/ fed + discarded < MaxFeeds /\ cb' = "data"
     \/ cb' = "eof"
     \/ terminate.signalled /\ cb' = "none"
  /\ rd_pc' = "check"
  /\ UNCHANGED <<main_pc, priv, terminate, close_fd, saw_term, join_tid,
                 fed, discarded, late_feed, closes, uaf>>
  /\ UNCHANGED <<queueVars, firVars, pfVars, iirVars>>

\* reader_thread lines 57-58: WaitForSingleObject(p->terminate, 0); anything
\* but WAIT_TIMEOUT breaks out of the loop before waio_return.
RdCheck ==
  /\ Alive /\ rd_pc = "check"
  /\ uaf' = Deref("reader WaitForSingleObject")
  /\ IF terminate.signalled
     THEN /\ saw_term' = TRUE
          /\ discarded' = IF cb = "data" THEN discarded + 1 ELSE discarded
          /\ rd_pc' = "done"
     ELSE /\ rd_pc' = "return"
          /\ UNCHANGED <<saw_term, discarded>>
  /\ UNCHANGED <<main_pc, priv, terminate, close_fd, cb, join_tid,
                 fed, late_feed, closes>>
  /\ UNCHANGED <<queueVars, firVars, pfVars, iirVars>>

\* reader_thread lines 59-61: r = waio_return; r <= 0 breaks.
RdReturn ==
  /\ Alive /\ rd_pc = "return"
  /\ rd_pc' = IF cb = "data" THEN "feed" ELSE "done"
  /\ UNCHANGED <<main_pc, priv, terminate, close_fd, cb, saw_term, join_tid,
                 fed, discarded, late_feed, closes, uaf>>
  /\ UNCHANGED <<queueVars, firVars, pfVars, iirVars>>

\* reader_thread line 62: mp_input_src_feed_cmd_text(p->src, buffer, r).
RdFeed ==
  /\ Alive /\ rd_pc = "feed"
  /\ uaf' = Deref("reader feed")
  /\ fed' = fed + 1
  /\ late_feed' = (late_feed \/ main_pc = "closed")
  /\ rd_pc' = "read"
  /\ UNCHANGED <<main_pc, priv, terminate, close_fd, cb, saw_term, join_tid,
                 discarded, closes>>
  /\ UNCHANGED <<queueVars, firVars, pfVars, iirVars>>

\* reader_thread lines 65-70, every exit path: MP_VERBOSE(p, ...),
\* waio_free, close(fd) if close_fd, talloc_free(p).
RdDone ==
  /\ Alive /\ rd_pc = "done"
  /\ uaf' = Deref("reader done")
  /\ priv' = "freed"
  /\ rd_pc' = "freed"
  /\ UNCHANGED <<main_pc, terminate, close_fd, cb, saw_term, join_tid,
                 fed, discarded, late_feed, closes>>
  /\ UNCHANGED <<queueVars, firVars, pfVars, iirVars>>

\* reader_thread line 71: return NULL, the thread terminates.
RdExit ==
  /\ Alive /\ rd_pc = "freed"
  /\ rd_pc' = "exited"
  /\ UNCHANGED <<main_pc, priv, terminate, close_fd, cb, saw_term, join_tid,
                 fed, discarded, late_feed, closes, uaf>>
  /\ UNCHANGED <<queueVars, firVars, pfVars, iirVars>>

\* close_pipe lines 76-78: p = src->priv; SetEvent(p->terminate).  A stale
\* or live read signals the event; another value signals nothing.
ClSetEvent ==
  /\ main_pc = "created"
  /\ uaf' = Deref("close_pipe SetEvent")
  /\ \E v \in ReadField :
       /\ main_pc' = IF v = "fault" THEN "crash" ELSE "join"
       /\ terminate' = IF v = "value"
                       THEN [terminate EXCEPT !.signalled = TRUE]
                       ELSE terminate
  /\ UNCHANGED <<rd_pc, priv, close_fd, cb, saw_term, join_tid,
                 fed, discarded, late_feed, closes>>
  /\ UNCHANGED <<queueVars, firVars, pfVars, iirVars>>

\* close_pipe line 79, the argument: pthread_join(p->thread, NULL) reads
\* p->thread.
ClJoinArg ==
  /\ main_pc = "join"
  /\ uaf' = Deref("close_pipe pthread_join")
  /\ \E v \in ReadField :
       /\ main_pc' = IF v = "fault" THEN "crash" ELSE "joining"
       /\ join_tid' = IF v = "value" THEN "reader" ELSE "garbage"
  /\ UNCHANGED <<rd_pc, priv, terminate, close_fd, cb, saw_term,
                 fed, discarded, late_feed, closes>>
  /\ UNCHANGED <<queueVars, firVars, pfVars, iirVars>>

\* close_pipe line 79, the wait: pthread_join returns once the reader has
\* terminated; handed an id that names no thread it returns an error at
\* once.
ClJoined ==
  /\ main_pc = "joining"
  /\ \/ join_tid = "reader" /\ rd_pc = "exited"
     \/ join_tid = "garbage"
  /\ main_pc' = "close"
  /\ UNCHANGED <<rd_pc, priv, terminate, close_fd, cb, saw_term, join_tid,
                 fed, discarded, late_feed, closes, uaf>>
  /\ UNCHANGED <<queueVars, firVars, pfVars, iirVars>>

\* close_pipe line 80: CloseHandle(p->terminate), then close_pipe returns.
\* A stale or live read closes the event's handle; another value leaves it
\* open.
ClCloseHandle ==
  /\ main_pc = "close"
  /\ uaf' = Deref("close_pipe CloseHandle")
  /\ \E v \in ReadField :
       /\ main_pc' = IF v = "fault" THEN "crash" ELSE "closed"
       /\ terminate' = IF v = "value"
                       THEN [terminate EXCEPT !.handle = "closed"]
                       ELSE terminate
       /\ closes' = IF v = "value" THEN closes + 1 ELSE closes
  /\ UNCHANGED <<rd_pc, priv, close_fd, cb, saw_term, join_tid,
                 fed, discarded, late_feed>>
  /\ UNCHANGED <<queueVars, firVars, pfVars, iirVars>>

InitQueue == QueueInit /\ FirIdle /\ PfIdle /\ IirIdle /\ PipeIdle
InitFir   == QueueIdle /\ FirInit /\ PfIdle /\ IirIdle /\ PipeIdle
InitPfir  == QueueIdle /\ FirIdle /\ PfInit /\ IirIdle /\ PipeIdle
InitIir   == QueueIdle /\ FirIdle /\ PfIdle /\ IirInit /\ PipeIdle
InitPipe  == QueueIdle /\ FirIdle /\ PfIdle /\ IirIdle /\ PipeInit

NextQueue == Push \/ PfirCall
NextFir   == DesignFirCall
NextPfir  == DesignPfirCall \/ DesignPfirDivZero
NextIir   == SzxformCall
NextPipe  == \/ AddPipeNoSrc \/ AddPipeFail \/ AddPipeOk
             \/ RdOpen \/ RdAlloc \/ RdRead \/ RdSuspend \/ RdCheck
             \/ RdReturn \/ RdFeed \/ RdDone \/ RdExit
             \/ ClSetEvent \/ ClJoinArg \/ ClJoined \/ ClCloseHandle

SpecQueue == InitQueue /\ [][NextQueue]_vars
SpecFir   == InitFir /\ [][NextFir]_vars
SpecPfir  == InitPfir /\ [][NextPfir]_vars
SpecIir   == InitIir /\ [][NextIir]_vars
SpecPipe  == InitPipe /\ [][NextPipe]_vars

Init == InitQueue \/ InitFir \/ InitPfir \/ InitIir \/ InitPipe
Next == Push \/ PfirCall \/ DesignFirCall \/ DesignPfirCall \/ DesignPfirDivZero \/ SzxformCall
        \/ NextPipe
Spec == Init /\ [][Next]_vars


(***************************************************************************)
(* Properties.                                                             *)
(***************************************************************************)

\* ---- FIR runtime -------------------------------------------------------

\* The last n samples pushed to queue q, oldest first.
LastPushed(q) == SubSeq(pushed[q], Len(pushed[q]) - qn + 1, Len(pushed[q]))

\* C1: for a power-of-two n, once n samples have been pushed,
\* the window read at the current cursor holds the last n pushed samples of
\* every queue in reverse chronological order: window index 0 is the most
\* recently pushed sample, index n-1 the oldest of the n.
C1_WindowNewestFirst ==
  (IsPow2(qn) /\ Len(pushed[0]) >= qn) =>
    \A q \in 0..(qd - 1) : \A j \in 0..(qn - 1) :
      Window(q)[j] = LastPushed(q)[qn - j]

\* What updatepq leaves instead: the window read at the current cursor holds
\* the last n pushed samples oldest first.
WindowOldestFirst ==
  (IsPow2(qn) /\ Len(pushed[0]) >= qn) =>
    \A q \in 0..(qd - 1) : \A j \in 0..(qn - 1) :
      Window(q)[j] = LastPushed(q)[j + 1]

\* C11: the write cursor is always in [0, n).  For a power-of-two n every
\* push stores at the position one after the previous one modulo n, the
\* cursor updatepq returns is (xi + 1) mod n, the first n pushes store at n
\* different positions and after n pushes the cursor is back at the first
\* position.  For every n >= 1 that is not a power of two the returned cursor
\* is in [0, n) for every xi in [0, n) but differs from (xi + 1) mod n for
\* some xi.
C11_CursorAdvancesModN ==
  /\ qn >= 1 => xi \in 0..(qn - 1)
  /\ (IsPow2(qn) /\ visited # <<>>) =>
       /\ \A i \in 1..Len(visited) :
            visited[i] = (visited[1] + i - 1) % qn
       /\ xi = (visited[Len(visited)] + 1) % qn
       /\ qacc.op = "updatepq" => qacc.ret = xi
       /\ Len(visited) >= qn =>
            /\ {visited[i] : i \in 1..qn} = 0..(qn - 1)
            /\ Len(visited) = qn => xi = visited[1]
  /\ \A n \in 1..MaxLen :
       ~IsPow2(n) =>
         /\ \A c \in 0..(n - 1) : NextCursor(n, c) \in 0..(n - 1)
         /\ \E c \in 0..(n - 1) : NextCursor(n, c) # (c + 1) % n

\* n = 4 pushes from a cursor that did not start at 0: the cursor has been
\* round once and is back at its first position.
C11_Witness ==
  /\ qn = 4 /\ Len(visited) = 4
  /\ visited[1] = 2 /\ xi = 2

\* The flat address of cell c of queue q.
Addr(q, c) == q * 2 * qn + c

\* A call of updatepq: the stores are the two cells xi and xi + n of each of
\* the d queues, all inside the d*2n cells, both cells hold the new sample
\* and every other cell is as before.
C12_UpdatePqStep ==
  /\ qacc'.xw = {Addr(q, xi) : q \in 0..(qd - 1)}
                  \cup {Addr(q, xi + qn) : q \in 0..(qd - 1)}
  /\ qacc'.xw \subseteq 0..(2 * qn * qd - 1)
  /\ qacc'.xr = {} /\ qacc'.wr = {} /\ qacc'.yw = {}
  /\ \A q \in 0..(qd - 1) : \A c \in 0..(2 * qn - 1) :
       IF c \in {xi, xi + qn}
       THEN xq'[q][c] = pushed'[q][Len(pushed'[q])]
       ELSE xq'[q][c] = xq[q][c]

\* A call of pfir with stride s: the reads of the history are cells
\* xi .. xi+n-1 of each queue, the reads of the taps are indices 0..n-1 of
\* each of the d filters, the stores are the output cells 0, s, ..., (d-1)s;
\* fir reads indices n-1 down to 0 and does n multiply-accumulates per filter;
\* the history is not written.
C12_PfirStep(s) ==
  /\ qacc'.xr = {Addr(q, xi + j) : q \in 0..(qd - 1), j \in 0..(qn - 1)}
  /\ qacc'.xr \subseteq 0..(2 * qn * qd - 1)
  /\ qacc'.wr = {q * qn + j : q \in 0..(qd - 1), j \in 0..(qn - 1)}
  /\ qacc'.yw = {q * s : q \in 0..(qd - 1)}
  /\ qacc'.yw \subseteq DOMAIN qacc'.out
  /\ qacc'.xw = {}
  /\ Len(qacc'.reads) = qn
  /\ \A i \in 1..qn : qacc'.reads[i] = qn - i
  /\ qacc'.macs = qn * qd
  /\ xq' = xq /\ xi' = xi

\* C12: for n >= 1, d >= 1 and xi in [0, n), every call of updatepq and of
\* pfir touches only the cells described in C12_UpdatePqStep and
\* C12_PfirStep: all accesses stay inside the caller-sized storage.
C12_AccessesInBounds ==
  [][ /\ Len(visited') > Len(visited) => C12_UpdatePqStep
      /\ (Len(visited') = Len(visited) /\ qacc'.op = "pfir") =>
           \E s \in Strides :
             /\ DOMAIN qacc'.out = 0..((qd - 1) * s)
             /\ C12_PfirStep(s) ]_vars

\* Two queues of four cells' history each, pushed to and then filtered with
\* stride 2 at the last cursor position.
C12_Witness ==
  /\ qn = 4 /\ qd = 2 /\ xi = 3
  /\ Len(visited) >= 1
  /\ qacc.op = "pfir"
  /\ DOMAIN qacc.out = 0..2

\* ---- design_fir --------------------------------------------------------

\* The call selected filter kind HP or BS (and neither LP nor BP).
HpOrBs == fir_in.kinds # {} /\ fir_in.kinds \subseteq {"HP", "BS"}

\* C2: design_fir called with filter kind HP or BS and an even length n
\* returns failure, for every window selector and every cutoff.
C2_EvenHpBsFails ==
  (fir_pc = "done" /\ HpOrBs /\ fir_in.n % 2 = 0) => fir_ret = -1

\* An HP design of even length with a valid buffer and a valid window, which
\* only the parity test rejects.
C2_Witness ==
  /\ fir_pc = "done" /\ fir_in.kinds = {"HP"} /\ fir_in.n = 2
  /\ ~fir_in.wnull /\ fir_in.window = "KAISER" /\ fir_in.fc[1] = 4
  /\ fir_ret = -1

\* The mirror pairs of the design loops cover every index of 0..n-1 exactly
\* once: the pairs (end-i-1, n-end+i) for i < end, and the centre when n is odd.
MirrorCover(n) ==
  LET e == LoopEnd(n)
      lefts  == {LeftIdx(n, i) : i \in 0..(e - 1)}
      rights == {RightIdx(n, i) : i \in 0..(e - 1)}
      centre == IF Odd(n) = 1 THEN {e} ELSE {}
  IN /\ \A i \in 0..(e - 1) : LeftIdx(n, i) + RightIdx(n, i) = n - 1
     /\ lefts \cup rights \cup centre = 0..(n - 1)
     /\ Cardinality(lefts) + Cardinality(rights) + Cardinality(centre) = n

\* C3: after every successful design_fir call that selected a filter kind,
\* the taps are symmetric, w[i] = w[n-1-i] for all i, and the index pairs
\* the loops store to are mirror pairs covering 0..n-1 exactly once.
C3_TapsSymmetric ==
  (fir_pc = "done" /\ fir_ret = 0 /\ fir_in.kinds # {}) =>
    /\ \A i \in 0..(fir_in.n - 1) : fir_w[i] = fir_w[fir_in.n - 1 - i]
    /\ MirrorCover(fir_in.n)

\* A successful band-pass design of even length whose window envelope is not
\* symmetric and whose taps are finite and not all equal.
C3_Witness ==
  /\ fir_pc = "done" /\ fir_ret = 0 /\ fir_in.kinds = {"BP"} /\ fir_in.n = 4
  /\ fir_in.env[0] # fir_in.env[3] /\ fir_in.env[1] # fir_in.env[2]
  /\ fir_loc.g # 0
  /\ fir_w[0] # fir_w[1]

\* C6: design_fir never returns success when the normalization
\* gain g is exactly zero.
C6_ZeroGainFails ==
  (fir_pc = "done" /\ fir_ret = 0) => fir_loc.g # 0

\* The cutoff the claim expects design_fir to use for a given fc: fc/2 when
\* 0 < fc < 1, the default 0.25 otherwise.
ClaimedCutoff(fc) == IF 0 < fc /\ fc < FcUnit THEN fc \div 2 ELSE FcUnit \div 4

\* C9: every cutoff outside the open range 0 < fc < 1 is
\* replaced by 0.25 and a cutoff inside it is halved, for the cutoff of LP/HP
\* and for each of the two cutoffs of BP/BS.
C9_CutoffOpenRange ==
  fir_pc = "done" =>
    /\ "A" \in fir_loc.blocks => fir_loc.fcA = ClaimedCutoff(fir_in.fc[1])
    /\ "B" \in fir_loc.blocks =>
         /\ fir_loc.fcB1 = ClaimedCutoff(fir_in.fc[1])
         /\ fir_loc.fcB2 = ClaimedCutoff(fir_in.fc[2])

\* ---- design_pfir -------------------------------------------------------

\* The call passed the sanity check and stored to the bank.
PfFilled ==
  /\ pf_pc = "done" /\ pf_in.k >= 1 /\ pf_in.n \div pf_in.k >= 1
  /\ ~pf_in.wnull /\ ~pf_in.pwnull

\* C4: design_pfir called with a length n that k does not
\* divide fails and leaves the bank pw unmodified.
C4_IndivisibleLeavesBank ==
  (pf_pc = "done" /\ pf_in.k >= 1 /\ pf_in.n % pf_in.k # 0) =>
    /\ pf_ret = -1
    /\ pf_pw = EmptyBank(pf_in.n, pf_in.k)

\* C5: design_pfir returns 0 when the design is OK (the bank
\* was filled) and -1 only when it rejected its inputs.
C5_ReturnTellsFilled ==
  (pf_pc = "done" /\ pf_in.k >= 1) => (pf_ret = 0 <=> PfFilled)

\* The sign design_pfir gives the value stored in column j.
ClaimedSign(flags, j) ==
  IF "ODD" \notin flags THEN 1
  ELSE IF "REW" \in flags THEN (IF j % 2 = 1 THEN -1 ELSE 1)
  ELSE (IF j % 2 = 0 THEN -1 ELSE 1)

\* C10: with n = k*l design_pfir stores to every cell of the k by l bank
\* exactly once; tap w[c*k+i] times the gain lands in row i, column c
\* (Forward) or column l-1-c (Reverse); with ODD the value is negated in odd
\* columns for Reverse and in even columns for Forward, without ODD it is not
\* negated; with Forward, no ODD and gain 1 the bank read column by column is
\* the prototype.
C10_RoundRobinFill ==
  (PfFilled /\ pf_in.n % pf_in.k = 0) =>
    LET k == pf_in.k
        l == pf_in.n \div pf_in.k
        rew == "REW" \in pf_in.flags
    IN /\ \A i \in 0..(k - 1) : \A c \in 0..(l - 1) :
            LET j == IF rew THEN l - 1 - c ELSE c
            IN /\ pf_cnt[i][j] = 1
               /\ pf_pw[i][j] =
                    ClaimedSign(pf_in.flags, j) * ((pf_in.g * pf_in.w[c * k + i]) \div Milli)
       /\ (~rew /\ "ODD" \notin pf_in.flags /\ pf_in.g = Milli) =>
            [p \in 0..(pf_in.n - 1) |-> pf_pw[p % k][p \div k]] = pf_in.w

\* A Reverse, ODD decomposition of 6 taps into 3 rows of 2 columns with gain 2.
C10_Witness ==
  /\ PfFilled /\ pf_in.n = 6 /\ pf_in.k = 3
  /\ pf_in.flags = {"REW", "ODD"} /\ pf_in.g = 2 * Milli
  /\ pf_pw[0][1] = 0 - 2 * pf_in.w[0]
  /\ pf_pw[2][0] = 2 * pf_in.w[5]

\* ---- szxform -----------------------------------------------------------

\* The call that iir_last describes must be rejected: Q < 1.0, Q > 1000.0,
\* or a pointer argument is missing.
MustReject(call) ==
  \/ call.nulls # {}
  \/ call.Q.num < call.Q.den
  \/ call.Q.num > 1000 * call.Q.den

\* C7: szxform returns failure if and only if Q < 1.0, Q > 1000.0 or one of
\* a, b, k, coef is missing; a failing call leaves *k and coef[0..3]
\* unchanged and a succeeding call stores to all four coef entries.
C7_Step ==
  iir_last' # iir_last \/ iir_ret' # iir_ret \/ iir_k' # iir_k \/ iir_coef' # iir_coef
    => /\ iir_ret' \in {0, -1}
       /\ iir_ret' = -1 <=> MustReject(iir_last')
       /\ iir_ret' = -1 => (iir_k' = iir_k /\ iir_coef' = iir_coef
                            /\ iir_last'.written = {})
       /\ iir_ret' = 0 => iir_last'.written = {0, 1, 2, 3}
C7_RejectIffBadArgs == [][C7_Step]_vars

\* A call rejected for Q = 1000.5 after a call accepted with Q = 1000 has
\* changed *k and coef: both still hold what the accepted call left.
C7_Witness ==
  /\ iir_pc = "called" /\ iir_ret = -1
  /\ iir_last.nulls = {} /\ iir_last.Q = Rat(2001, 2)
  /\ Len(iir_hist) = 1 /\ iir_hist[1].Q = RInt(1000)
  /\ iir_k # iir_k0
  /\ iir_coef[0] # RInt(0)

\* ad/bd of one section, from its raw coefficients: with wp = 2*fs*tan(pi*fc/fs),
\* ad = 4*(a2/wp^2)*fs^2 + 2*(a1/wp)*fs + a0 and bd likewise from b with
\* b1 divided by Q.
SectionPoly(c0, c1, c2, fc, fs) ==
  LET wp == RMul(RInt(2 * fs), TanPi(fc, fs))
  IN RAdd(RAdd(RDiv(RMul(RInt(4 * fs * fs), c2), RMul(wp, wp)),
               RDiv(RMul(RInt(2 * fs), c1), wp)),
          c0)
SectionRatio(sec) ==
  RDiv(SectionPoly(sec.a[0], sec.a[1], sec.a[2], sec.fc, sec.fs),
       SectionPoly(sec.b[0], RDiv(sec.b[1], sec.Q), sec.b[2], sec.fc, sec.fs))

RECURSIVE RatioProduct(_)
RatioProduct(secs) ==
  IF secs = <<>> THEN RInt(1)
  ELSE RMul(RatioProduct(SubSeq(secs, 1, Len(secs) - 1)), SectionRatio(secs[Len(secs)]))

\* C8: after any sequence of successful szxform calls threading the same k,
\* k is its initial value times the product of every section's ad/bd.
C8_GainIsProduct ==
  iir_pc # "idle" => iir_k = RMul(iir_k0, RatioProduct(iir_hist))

\* Two sections with different ratios were designed from k = 2, and a third
\* call was rejected.
C8_Witness ==
  /\ iir_pc = "called" /\ iir_k0 = RInt(2)
  /\ Len(iir_hist) = 2
  /\ SectionRatio(iir_hist[1]) # SectionRatio(iir_hist[2])
  /\ SectionRatio(iir_hist[1]) # RInt(1) /\ SectionRatio(iir_hist[2]) # RInt(1)
  /\ iir_k # SectionRatio(iir_hist[2])

\* ---- win32_pipe --------------------------------------------------------

\* C13: in every interleaving of mp_input_add_pipe, reader_thread and
\* close_pipe, no thread reads p after talloc_free(p), and the handle of the
\* terminate event is closed at most once, exactly once when close_pipe has
\* returned.
C13_NoUseAfterFree ==
  /\ uaf = {}
  /\ closes <= 1
  /\ main_pc = "closed" => closes = 1

\* One step of the pipe: close_pipe returns only with the reader terminated,
\* no feed follows the return of close_pipe, and a reader that finds the
\* terminate event signalled leaves the loop without feeding.
C14_Step ==
  /\ main_pc' = "closed" => rd_pc' = "exited"
  /\ main_pc = "closed" => fed' = fed
  /\ (saw_term' /\ ~saw_term) => (fed' = fed /\ rd_pc' = "done")
  /\ saw_term => fed' = fed

\* C14: once close_pipe has returned the reader thread has terminated and
\* mp_input_src_feed_cmd_text is not called again; a read that completed
\* before the reader saw the terminate event is dropped, not fed.
C14_NoFeedAfterClose == [][C14_Step]_vars

\* The same steps whenever pthread_join was handed the reader's own id, that
\* is, whenever close_pipe read p->thread before the reader freed p.
FeedStopsWhenJoined == [][join_tid' # "garbage" => C14_Step]_vars

\* Feeding itself is over once close_pipe has returned, whatever the reads of
\* freed memory yielded.
NoLateFeed == ~late_feed

====
